---- MODULE Spec2Model ----
(***************************************************************************)
(* Model of the Metro catalogue parser: the retry decorator (utils.py),    *)
(* the window decorator, the item fetcher with its lru_cache, the listing  *)
(* loop and the category run (parser.py), driven by the city loop of       *)
(* example.py.  The program is single threaded; pc is the position of its  *)
(* only thread.  Cyrillic literals of the source are transliterated.       *)
(***************************************************************************)
EXTENDS Integers, Sequences, FiniteSets, TLC

VARIABLES
    listing,    \* the product tiles of the category page: <<[text, href]>>
    page,       \* the detail page behind every link: a page kind
    pc,         \* position of the program
    callNo,     \* number of cities example.py has started
    results,    \* outcome of every finished parse_chocolate_category call
    triesRun,   \* the nonlocal `tries` of parse_chocolate_category's wrapper
    triesItem,  \* the nonlocal `tries` of get_product_data's wrapper
    nDrivers,   \* number of WebDriver objects constructed so far
    driver,     \* the driver of the running attempt, 0 when there is none
    open,       \* drivers whose browser process is running
    windows,    \* driver.window_handles of the running attempt
    active,     \* the window the driver is switched to
    selStep,    \* controls select_address_in_city has used so far
    moreLeft,   \* lookups for which the "show more" button is still there
    i,          \* index of the listing entry get_products_data is at
    products,   \* the list get_products_data is building
    src,        \* for every element of products, the entry it was read for
    cache,      \* lru_cache of get_product_data: (driver, link) -> value
    pending,    \* outcome of the function running inside the new window
    runCall,    \* the running/last retry_wrapper call of
                \* parse_chocolate_category: invocations made, how it ended
    itemCall,   \* the same for the wrapper of get_product_data
    everOk,     \* some invocation of get_product_data has not raised
    fetches,    \* (driver, link) -> number of invocations of
                \* get_product_data that loaded the page and returned
    missing,    \* the element the running get_product_data did not find
    touched,    \* the controls select_address_in_city has used in the
                \* running/last attempt, in the order it used them
    scroll,     \* scroll_to_the_bottom in the running attempt: lookups
                \* that will find the button, lookups and clicks made
    retry,      \* a retry-wrapped function on its own (RetrySpec)
    price       \* scrape_price on its own (PriceSpec)

vars == <<listing, page, pc, callNo, results, triesRun, triesItem, nDrivers,
          driver, open, windows, active, selStep, moreLeft, i, products, src,
          cache, pending, runCall, itemCall, everOk, fetches, missing, touched,
          scroll, retry, price>>

-----------------------------------------------------------------------------
(* Bounds of the model *)

MaxEntries == 2     \* longest listing
NumLinks == 2       \* distinct product links
MaxMore == 1        \* most clicks on "show more"
\* The retry decorator takes its budget as the argument `tries`; the source
\* passes 10 at both places.  The wrapper treats every positive budget alike,
\* so the model runs it with small budgets.
RunTries == 2       \* tries= of @retry on parse_chocolate_category
ItemTries == 2      \* tries= of @retry on get_product_data

MaxRetryTries == 2  \* largest tries= of RetrySpec
MinRetryTries == 2  \* the smallest tries= of RetrySpec is -MinRetryTries
MaxRetryCalls == 2  \* calls of the wrapped function in RetrySpec
MaxRetryFails == 3  \* retryable failures RetrySpec follows
MaxPriceLen == 3    \* longest text of PriceSpec

Links == 1..NumLinks

-----------------------------------------------------------------------------
(* Texts are sequences of characters or of words. *)

\* text.replace(" ", "", 1)
RemoveFirstSpace(text) ==
    IF \E k \in 1..Len(text) : text[k] = " "
    THEN LET k == CHOOSE j \in 1..Len(text) :
                      /\ text[j] = " "
                      /\ \A h \in 1..(j - 1) : text[h] # " "
         IN  SubSeq(text, 1, k - 1) \o SubSeq(text, k + 1, Len(text))
    ELSE text

RECURSIVE RemoveSpaces(_)
RemoveSpaces(text) ==
    IF text = <<>> THEN <<>>
    ELSE IF Head(text) = " " THEN RemoveSpaces(Tail(text))
         ELSE <<Head(text)>> \o RemoveSpaces(Tail(text))

\* split("r")[0]: cut at the currency unit
BeforeUnit(text) ==
    IF \E k \in 1..Len(text) : text[k] = "r"
    THEN SubSeq(text, 1, (CHOOSE j \in 1..Len(text) :
                             /\ text[j] = "r"
                             /\ \A h \in 1..(j - 1) : text[h] # "r") - 1)
    ELSE text

RECURSIVE BeforeMarker(_)
BeforeMarker(text) ==
    IF text = <<>> THEN <<>>
    ELSE IF Head(text) = "d" THEN <<>>
         ELSE <<Head(text)>> \o BeforeMarker(Tail(text))

\* text.replace(" ", "").split("d")[0]   ("d" stands for the cyrillic de)
scrape_price(text) == BeforeMarker(RemoveSpaces(text))

\* the sold-out marker of get_products_data
SoldOutMarker == "Raskupili"

\* no check of the marker
AvailableAlways(text) == TRUE

\* "Raskupili" not in item.text
Available(text) == \A k \in 1..Len(text) : text[k] # SoldOutMarker

ItemTexts == { <<"Shokolad">>, <<"Shokolad", "Raskupili">> }

-----------------------------------------------------------------------------
(* Detail pages.  A page kind says whether the five elements               *)
(* get_product_data looks up are all there and what the price elements      *)
(* hold.  On an incomplete page one element is not there; which one shows   *)
(* when get_product_data looks the elements up.                             *)

PageKinds == {"full", "emptyRegular", "incomplete"}

Absent == <<"absent">>

Fields == {"id", "name", "regular", "promo", "brand"}

\* the elements that can be the one an incomplete page lacks
Gaps(kind) == IF kind = "incomplete" THEN Fields ELSE {"none"}

\* driver.find_element(...).text on a page whose missing element is gap
ElementText(kind, field, gap) ==
    IF field = gap THEN Absent
    ELSE CASE field = "id"      -> <<"7">>
           [] field = "name"    -> <<"Alpen">>
           [] field = "regular" -> IF kind = "emptyRegular" THEN <<>>
                                   ELSE <<"2", "5", "0", " ", "d">>
           [] field = "promo"   -> <<"1", "9", "9", " ", "d">>
           [] field = "brand"   -> <<"Milka">>

\* the page provides every element
PageComplete(kind) == kind # "incomplete"

\* the values get_product_data and its decorators hand around
NoneVal == [kind |-> "none"]
EmptyDict == [kind |-> "empty"]
Raised == [kind |-> "exc"]
Idle == [kind |-> "idle"]

Truthy(v) == v.kind = "record"

\* the regular price is kept even when it is empty
RegularOrPromoNoFallback(regular, promo) == regular

\* if not data.get("regular_price"): data["regular_price"] = data["promo_price"]
RegularOrPromo(regular, promo) == IF regular = <<>> THEN promo ELSE regular

\* the dict get_product_data builds when every element is found
BuildRecord(link, kind, gap) ==
    LET regular == scrape_price(ElementText(kind, "regular", gap))
        promo == scrape_price(ElementText(kind, "promo", gap))
    IN [kind |-> "record",
        id |-> ElementText(kind, "id", gap),
        name |-> ElementText(kind, "name", gap),
        link |-> link,
        regular_price |-> RegularOrPromo(regular, promo),
        promo_price |-> promo,
        brand_name |-> ElementText(kind, "brand", gap)]

\* no `except NoSuchElementException`: a missing element raises
ExtractDataRaising(link, kind, gap) ==
    IF \E f \in Fields : ElementText(kind, f, gap) = Absent
    THEN Raised
    ELSE BuildRecord(link, kind, gap)

\* only a missing name or price is taken for "out of stock"
ExtractDataStrict(link, kind, gap) ==
    IF gap \in {"id", "brand"} THEN Raised
    ELSE IF \E f \in Fields : ElementText(kind, f, gap) = Absent
         THEN EmptyDict
         ELSE BuildRecord(link, kind, gap)

\* the try block of get_product_data on a page that loaded
ExtractData(link, kind, gap) ==
    IF \E f \in Fields : ElementText(kind, f, gap) = Absent
    THEN EmptyDict
    ELSE BuildRecord(link, kind, gap)

-----------------------------------------------------------------------------
(* lru_cache(maxsize=None) *)

CacheKey(d, link) == <<d, link>>

\* a lookup that never finds anything
CacheHitNever(c, key) == FALSE

CacheHit(c, key) == key \in DOMAIN c

CacheStore(c, key, value) == c @@ (key :> value)

-----------------------------------------------------------------------------

\* the values of the bookkeeping variables when nothing is recorded
NoScroll == [n |-> 0, lookups |-> 0, clicks |-> 0]
NoRetry == [pc |-> "off"]
NoPrice == [pc |-> "off"]

cities == <<"Moskva", "Sankt-Peterburg">>

Entries == [text : ItemTexts, href : Links]

Listings == UNION { [1..n -> Entries] : n \in 0..MaxEntries }

\* the links of the first n tiles
LinksUpTo(l, n) == { l[j].href : j \in 1..n }

\* Links are opaque URLs: they are numbered in the order in which the
\* listing first shows them.
FirstSeenOrder(l) ==
    \A j \in 1..Len(l) : l[j].href <= Cardinality(LinksUpTo(l, j - 1)) + 1

\* The page of a link no tile points to is never loaded; it is left "full".
Pages(l) ==
    { p \in [Links -> PageKinds] :
        \A k \in Links \ LinksUpTo(l, Len(l)) : p[k] = "full" }

Init ==
    /\ listing \in { l \in Listings : FirstSeenOrder(l) }
    /\ page \in Pages(listing)
    /\ pc = "main"
    /\ callNo = 0
    /\ results = <<>>
    /\ triesRun = RunTries
    /\ triesItem = ItemTries
    /\ nDrivers = 0
    /\ driver = 0
    /\ open = {}
    /\ windows = <<>>
    /\ active = "none"
    /\ selStep = 0
    /\ moreLeft = 0
    /\ i = 0
    /\ products = <<>>
    /\ src = <<>>
    /\ cache = <<>>
    /\ pending = Idle
    /\ runCall = [inv |-> 0, out |-> "none"]
    /\ itemCall = [inv |-> 0, out |-> "none"]
    /\ everOk = FALSE
    /\ fetches = <<>>
    /\ missing = "none"
    /\ touched = <<>>
    /\ scroll = NoScroll
    /\ retry = NoRetry
    /\ price = NoPrice

-----------------------------------------------------------------------------
(* example.py: for city in cities: parser.parse_chocolate_category(city)    *)

CallParse ==
    /\ pc = "main"
    /\ callNo < Len(cities)
    /\ callNo' = callNo + 1
    /\ runCall' = [inv |-> 0, out |-> "running"]
    /\ pc' = "run_loop"
    /\ UNCHANGED <<listing, page, results, triesRun, triesItem, nDrivers,
                   driver, open, windows, active, selStep, moreLeft, i,
                   products, src, cache, pending, itemCall, everOk, fetches>>
    /\ UNCHANGED <<missing, touched, scroll, retry, price>>

-----------------------------------------------------------------------------
(* retry_wrapper around parse_chocolate_category *)

\* `while tries:` - with no tries left the wrapper falls off its end
RunLoop ==
    /\ pc = "run_loop"
    /\ IF triesRun # 0
       THEN /\ pc' = "acquire"
            /\ runCall' = [runCall EXCEPT !.inv = @ + 1]
            /\ UNCHANGED results
       ELSE /\ pc' = "main"
            /\ runCall' = [runCall EXCEPT !.out = "returned"]
            /\ results' = Append(results, NoneVal)
    /\ UNCHANGED <<listing, page, callNo, triesRun, triesItem, nDrivers,
                   driver, open, windows, active, selStep, moreLeft, i,
                   products, src, cache, pending, itemCall, everOk, fetches>>
    /\ UNCHANGED <<missing, touched, scroll, retry, price>>

\* `except exceptions as exc:` of the wrapper; an exception that leaves it
\* is not caught by example.py and ends the program
RunExcept ==
    /\ triesRun' = triesRun - 1
    /\ IF triesRun - 1 = 0
       THEN /\ pc' = "crashed"
            /\ runCall' = [runCall EXCEPT !.out = "raised"]
            /\ results' = Append(results, Raised)
       ELSE /\ pc' = "run_loop"
            /\ UNCHANGED <<runCall, results>>

\* no quit()
ReleasedLeak(o, d) == o

\* WebDriver.__exit__: quit()
Released(o, d) == o \ {d}

\* an exception leaves the `with` block of parse_chocolate_category
RaiseFromBody ==
    /\ open' = Released(open, driver)
    /\ driver' = 0
    /\ windows' = <<>>
    /\ active' = "none"
    /\ selStep' = 0
    /\ moreLeft' = 0
    /\ i' = 0
    /\ products' = <<>>
    /\ src' = <<>>
    /\ pending' = Idle
    /\ scroll' = NoScroll
    /\ RunExcept

\* a failed start ends the program, outside any retry
initialize_driver_fatal ==
    /\ pc = "acquire"
    /\ \/ /\ nDrivers' = nDrivers + 1
          /\ driver' = nDrivers + 1
          /\ open' = open \cup {nDrivers + 1}
          /\ windows' = <<"primary">>
          /\ active' = "primary"
          /\ pc' = "navigate"
          /\ touched' = <<>>
          /\ UNCHANGED <<triesRun, runCall, results>>
       \/ /\ pc' = "crashed"
          /\ runCall' = [runCall EXCEPT !.out = "raised"]
          /\ results' = Append(results, Raised)
          /\ UNCHANGED <<triesRun, nDrivers, driver, open, windows, active,
                         touched>>
    /\ UNCHANGED <<listing, page, callNo, triesItem, selStep, moreLeft, i,
                   products, src, cache, pending, itemCall, everOk, fetches>>
    /\ UNCHANGED <<missing, scroll, retry, price>>

\* initialize_driver: the browser starts, or web_driver(...) raises
initialize_driver ==
    /\ pc = "acquire"
    /\ \/ /\ nDrivers' = nDrivers + 1
          /\ driver' = nDrivers + 1
          /\ open' = open \cup {nDrivers + 1}
          /\ windows' = <<"primary">>
          /\ active' = "primary"
          /\ pc' = "navigate"
          /\ touched' = <<>>
          /\ UNCHANGED <<triesRun, runCall, results>>
       \/ /\ RunExcept
          /\ UNCHANGED <<nDrivers, driver, open, windows, active, touched>>
    /\ UNCHANGED <<listing, page, callNo, triesItem, selStep, moreLeft, i,
                   products, src, cache, pending, itemCall, everOk, fetches>>
    /\ UNCHANGED <<missing, scroll, retry, price>>

\* driver.get(category page); driver.implicitly_wait(6)
Navigate ==
    /\ pc = "navigate"
    /\ \/ /\ pc' = "select"
          /\ UNCHANGED <<results, triesRun, driver, open, windows, active,
                         selStep, moreLeft, i, products, src, pending,
                         runCall, scroll>>
       \/ RaiseFromBody
    /\ UNCHANGED <<listing, page, callNo, triesItem, nDrivers, cache,
                   itemCall, everOk, fetches>>
    /\ UNCHANGED <<missing, touched, retry, price>>

\* the pickup tab is used before the address button
ControlsSwapped == <<"PICKUP_BTN", "ADDRESS_BTN", "RESET_BTN", "CITY_INPUT",
                     "CITY_ITEM", "SELECT_BTN">>

\* the controls of select_address_in_city, in the order it uses them
Controls == <<"ADDRESS_BTN", "PICKUP_BTN", "RESET_BTN", "CITY_INPUT",
              "CITY_ITEM", "SELECT_BTN">>

\* one find_element(...).click() / send_keys(city) of
\* select_address_in_city; the control is there or NoSuchElementException
select_address_in_city ==
    /\ pc = "select"
    /\ \/ /\ selStep' = selStep + 1
          /\ touched' = Append(touched, Controls[selStep + 1])
          /\ IF selStep + 1 = Len(Controls)
             THEN /\ pc' = "scroll"
                  /\ moreLeft' \in 0..MaxMore
                  /\ scroll' = [n |-> moreLeft', lookups |-> 0, clicks |-> 0]
             ELSE UNCHANGED <<pc, moreLeft, scroll>>
          /\ UNCHANGED <<results, triesRun, driver, open, windows, active,
                         i, products, src, pending, runCall>>
       \/ /\ RaiseFromBody
          /\ UNCHANGED touched
    /\ UNCHANGED <<listing, page, callNo, triesItem, nDrivers, cache,
                   itemCall, everOk, fetches>>
    /\ UNCHANGED <<missing, retry, price>>

\* `if` in place of `while True`: one lookup, one click at most
scroll_to_the_bottom_once ==
    /\ pc = "scroll"
    /\ IF moreLeft > 0
       THEN /\ moreLeft' = moreLeft - 1
            /\ scroll' = [scroll EXCEPT !.lookups = @ + 1, !.clicks = @ + 1]
       ELSE /\ scroll' = [scroll EXCEPT !.lookups = @ + 1]
            /\ UNCHANGED moreLeft
    /\ pc' = "items"
    /\ i' = 1
    /\ products' = <<>>
    /\ src' = <<>>
    /\ UNCHANGED <<listing, page, callNo, results, triesRun, triesItem,
                   nDrivers, driver, open, windows, active, selStep, cache,
                   pending, runCall, itemCall, everOk, fetches, touched>>
    /\ UNCHANGED <<missing, retry, price>>

\* one iteration of scroll_to_the_bottom; after the loop
\* parse_chocolate_category reads the tiles and enters get_products_data
scroll_to_the_bottom ==
    /\ pc = "scroll"
    /\ IF moreLeft > 0
       THEN /\ moreLeft' = moreLeft - 1
            /\ scroll' = [scroll EXCEPT !.lookups = @ + 1, !.clicks = @ + 1]
            /\ UNCHANGED <<pc, i, products, src>>
       ELSE /\ pc' = "items"
            /\ scroll' = [scroll EXCEPT !.lookups = @ + 1]
            /\ i' = 1
            /\ products' = <<>>
            /\ src' = <<>>
            /\ UNCHANGED moreLeft
    /\ UNCHANGED <<listing, page, callNo, results, triesRun, triesItem,
                   nDrivers, driver, open, windows, active, selStep, cache,
                   pending, runCall, itemCall, everOk, fetches, touched>>
    /\ UNCHANGED <<missing, retry, price>>

-----------------------------------------------------------------------------
(* get_products_data *)

\* products.insert(0, data)
CollectFront(ps, data) == <<data>> \o ps

\* products.append(data)
Collect(ps, data) == Append(ps, data)

\* `if data: products.append(data)` and the step to the next pair of the zip
TakeData(data) ==
    /\ IF Truthy(data)
       THEN /\ products' = Collect(products, data)
            /\ src' = Collect(src, i)
       ELSE UNCHANGED <<products, src>>
    /\ i' = i + 1
    /\ pc' = "items"

\* one pass of the for loop of get_products_data up to the point where
\* get_product_data has to run, and the return of parse_chocolate_category
\* when the loop is over
get_products_data ==
    /\ pc = "items"
    /\ IF i > Len(listing)
       THEN /\ open' = Released(open, driver)
            /\ driver' = 0
            /\ windows' = <<>>
            /\ active' = "none"
            /\ results' = Append(results, [kind |-> "list", products |-> products,
                                           src |-> src])
            /\ runCall' = [runCall EXCEPT !.out = "returned"]
            /\ pc' = "main"
            /\ i' = 0
            /\ products' = <<>>
            /\ src' = <<>>
            /\ selStep' = 0
            /\ scroll' = NoScroll
            /\ UNCHANGED <<cache, itemCall>>
       ELSE /\ UNCHANGED <<open, driver, windows, active, results, runCall,
                           selStep, scroll>>
            /\ IF ~Available(listing[i].text)
               THEN /\ i' = i + 1
                    /\ UNCHANGED <<pc, products, src, cache, itemCall>>
               ELSE IF CacheHit(cache, CacheKey(driver, listing[i].href))
                    THEN /\ TakeData(cache[CacheKey(driver, listing[i].href)])
                         /\ UNCHANGED <<cache, itemCall>>
                    ELSE /\ pc' = "item_loop"
                         /\ itemCall' = [inv |-> 0, out |-> "running"]
                         /\ UNCHANGED <<i, products, src, cache>>
    /\ UNCHANGED <<listing, page, callNo, triesRun, triesItem, nDrivers,
                   moreLeft, pending, everOk, fetches, touched>>
    /\ UNCHANGED <<missing, retry, price>>

-----------------------------------------------------------------------------
(* retry_wrapper around get_product_data, under lru_cache *)

\* `while tries:` - with no tries left the wrapper returns None, which
\* lru_cache stores and get_products_data drops
ItemLoop ==
    /\ pc = "item_loop"
    /\ IF triesItem # 0
       THEN /\ pc' = "win_open"
            /\ itemCall' = [itemCall EXCEPT !.inv = @ + 1]
            /\ UNCHANGED <<i, products, src, cache>>
       ELSE /\ itemCall' = [itemCall EXCEPT !.out = "returned"]
            /\ cache' = CacheStore(cache, CacheKey(driver, listing[i].href),
                                   NoneVal)
            /\ TakeData(NoneVal)
    /\ UNCHANGED <<listing, page, callNo, results, triesRun, triesItem,
                   nDrivers, driver, open, windows, active, selStep,
                   moreLeft, pending, runCall, everOk, fetches>>
    /\ UNCHANGED <<missing, touched, scroll, retry, price>>

\* open_new_window: window.open(''), switch_to.window(window_handles[1])
open_new_window ==
    /\ pc = "win_open"
    /\ windows' = Append(windows, "secondary")
    /\ active' = "secondary"
    /\ pc' = "body"
    /\ UNCHANGED <<listing, page, callNo, results, triesRun, triesItem,
                   nDrivers, driver, open, selStep, moreLeft, i, products,
                   src, cache, pending, runCall, itemCall, everOk, fetches>>
    /\ UNCHANGED <<missing, touched, scroll, retry, price>>

\* the body of get_product_data: driver.get(link) raises, or the page
\* loads and the fields are read
get_product_data ==
    /\ pc = "body"
    /\ \/ /\ pending' = Raised
          /\ missing' = "none"
       \/ \E gap \in Gaps(page[listing[i].href]) :
             /\ pending' = ExtractData(listing[i].href,
                                       page[listing[i].href], gap)
             /\ missing' = gap
    /\ pc' = "win_close"
    /\ UNCHANGED <<listing, page, callNo, results, triesRun, triesItem,
                   nDrivers, driver, open, windows, active, selStep,
                   moreLeft, i, products, src, cache, runCall, itemCall,
                   everOk, fetches>>
    /\ UNCHANGED <<touched, scroll, retry, price>>

\* no driver.close()
ClosedWindowsLeak(ws) == ws

\* `finally:` of open_new_window: driver.close(),
\* switch_to.window(window_handles[0])
ClosedWindows(ws) == SubSeq(ws, 1, 1)

\* one more returned invocation for the key
Counted(f, key) ==
    IF key \in DOMAIN f THEN [f EXCEPT ![key] = @ + 1] ELSE f @@ (key :> 1)

\* the finally block, then what the retry wrapper, lru_cache and
\* get_products_data do with the outcome
CloseWindow ==
    /\ pc = "win_close"
    /\ windows' = ClosedWindows(windows)
    /\ active' = windows'[1]
    /\ pending' = Idle
    /\ IF pending = Raised
       THEN \* `except exceptions as exc:` of the wrapper
            /\ triesItem' = triesItem - 1
            /\ IF triesItem - 1 = 0
               THEN /\ pc' = "item_raise"
                    /\ itemCall' = [itemCall EXCEPT !.out = "raised"]
               ELSE /\ pc' = "item_loop"
                    /\ UNCHANGED itemCall
            /\ UNCHANGED <<i, products, src, cache, everOk, fetches>>
       ELSE /\ everOk' = TRUE
            /\ fetches' = Counted(fetches, CacheKey(driver, listing[i].href))
            /\ itemCall' = [itemCall EXCEPT !.out = "returned"]
            /\ cache' = CacheStore(cache, CacheKey(driver, listing[i].href),
                                   pending)
            /\ TakeData(pending)
            /\ UNCHANGED triesItem
    /\ missing' = "none"
    /\ UNCHANGED <<listing, page, callNo, results, triesRun, nDrivers,
                   driver, open, selStep, moreLeft, runCall>>
    /\ UNCHANGED <<touched, scroll, retry, price>>

\* the exception is swallowed and the loop goes on with the next entry
ItemRaiseSkip ==
    /\ pc = "item_raise"
    /\ pc' = "items"
    /\ i' = i + 1
    /\ UNCHANGED <<listing, page, callNo, results, triesRun, triesItem,
                   nDrivers, driver, open, windows, active, selStep,
                   moreLeft, products, src, cache, pending, runCall,
                   itemCall, everOk, fetches>>
    /\ UNCHANGED <<missing, touched, scroll, retry, price>>

\* `raise exc` of get_product_data's wrapper: nothing between it and the
\* wrapper of parse_chocolate_category catches, so the exception goes
\* through lru_cache and get_products_data and leaves the `with` block
ItemRaise ==
    /\ pc = "item_raise"
    /\ RaiseFromBody
    /\ UNCHANGED <<listing, page, callNo, triesItem, nDrivers, cache,
                   itemCall, everOk, fetches>>
    /\ UNCHANGED <<missing, touched, retry, price>>

-----------------------------------------------------------------------------

Next ==
    \/ CallParse
    \/ RunLoop
    \/ initialize_driver
    \/ Navigate
    \/ select_address_in_city
    \/ scroll_to_the_bottom
    \/ get_products_data
    \/ ItemLoop
    \/ open_new_window
    \/ get_product_data
    \/ CloseWindow
    \/ ItemRaise

Spec == Init /\ [][Next]_vars

TypeOK ==
    /\ pc \in {"main", "run_loop", "acquire", "navigate", "select", "scroll",
               "items", "item_loop", "win_open", "body", "win_close",
               "item_raise", "crashed"}
    /\ triesRun \in 0..RunTries
    /\ triesItem \in 0..ItemTries

-----------------------------------------------------------------------------
(* The retry decorator on its own: a wrapped function that returns, raises  *)
(* an exception of the `exceptions` classes ("retryable") or raises another *)
(* one ("other"), called several times.                                     *)

\* the variables of the parser run
mainVars == <<listing, page, pc, callNo, results, triesRun, triesItem,
              nDrivers, driver, open, windows, active, selStep, moreLeft, i,
              products, src, cache, pending, runCall, itemCall, everOk,
              fetches, missing, touched, scroll>>

\* the parser before example.py has done anything, with an empty catalogue
MainIdle ==
    /\ listing = <<>>
    /\ page = [l \in Links |-> "full"]
    /\ pc = "main"
    /\ callNo = 0
    /\ results = <<>>
    /\ triesRun = RunTries
    /\ triesItem = ItemTries
    /\ nDrivers = 0
    /\ driver = 0
    /\ open = {}
    /\ windows = <<>>
    /\ active = "none"
    /\ selStep = 0
    /\ moreLeft = 0
    /\ i = 0
    /\ products = <<>>
    /\ src = <<>>
    /\ cache = <<>>
    /\ pending = Idle
    /\ runCall = [inv |-> 0, out |-> "none"]
    /\ itemCall = [inv |-> 0, out |-> "none"]
    /\ everOk = FALSE
    /\ fetches = <<>>
    /\ missing = "none"
    /\ touched = <<>>
    /\ scroll = NoScroll

\* retry(tries=t, log=l)(func): the closure holds tries
RetryInit ==
    /\ MainIdle
    /\ price = NoPrice
    /\ retry \in { [pc |-> "idle", tries0 |-> t, tries |-> t, logOn |-> l,
                    calls |-> 0, inv |-> 0, out |-> "none", val |-> "none",
                    last |-> "none", log |-> 0, fails |-> 0] :
                   t \in (0 - MinRetryTries)..MaxRetryTries, l \in BOOLEAN }

\* a call of the wrapped function
RetryCall ==
    /\ retry.pc = "idle"
    /\ retry.calls < MaxRetryCalls
    /\ retry' = [retry EXCEPT !.pc = "loop", !.calls = @ + 1, !.inv = 0,
                              !.out = "running", !.val = "none"]
    /\ UNCHANGED <<mainVars, price>>

\* while tries > 0:
LoopCondPositive(tries) == tries > 0

\* while tries:
LoopCond(tries) == tries # 0

\* the head of the loop: invoke func, or fall off the end and return None
RetryWhile ==
    /\ retry.pc = "loop"
    /\ IF LoopCond(retry.tries)
       THEN retry' = [retry EXCEPT !.pc = "func", !.inv = @ + 1]
       ELSE retry' = [retry EXCEPT !.pc = "idle", !.out = "returned",
                                   !.val = "None"]
    /\ UNCHANGED <<mainVars, price>>

\* except BaseException:
MatchesAll(exc) == TRUE

\* except exceptions as exc:
Matches(exc) == exc = "retryable"

\* return func(*args, **kwargs) and the except clause
RetryFunc ==
    /\ retry.pc = "func"
    /\ \/ retry' = [retry EXCEPT !.pc = "idle", !.out = "returned",
                                 !.val = "result", !.last = "ok"]
       \/ \E exc \in {"retryable", "other"} :
             IF Matches(exc)
             THEN /\ retry.fails < MaxRetryFails
                  /\ IF retry.tries - 1 = 0
                     THEN retry' = [retry EXCEPT !.tries = @ - 1,
                                                 !.fails = @ + 1,
                                                 !.last = exc,
                                                 !.pc = "idle",
                                                 !.out = "raised",
                                                 !.val = exc]
                     ELSE retry' = [retry EXCEPT !.tries = @ - 1,
                                                 !.fails = @ + 1,
                                                 !.last = exc,
                                                 !.pc = "loop",
                                                 !.log = IF retry.logOn
                                                         THEN @ + 1 ELSE @]
             ELSE retry' = [retry EXCEPT !.last = exc, !.pc = "idle",
                                         !.out = "raised", !.val = exc]
    /\ UNCHANGED <<mainVars, price>>

RetryNext ==
    \/ RetryCall
    \/ RetryWhile
    \/ RetryFunc

RetrySpec == RetryInit /\ [][RetryNext]_vars

-----------------------------------------------------------------------------
(* scrape_price on its own, applied to a text and then to its own result.   *)

\* the characters of the texts: a digit, the decimal separator, a space, a
\* tab, the cyrillic de ("d") and the first letter of the currency unit
PriceChars == {"1", ".", " ", "TAB", "d", "r"}

\* "1 234rub." stands for the price followed by the cyrillic currency unit,
\* "1 2 d/1" for a price followed by a text that begins with de
PriceExamples ==
    { <<"1", " ", "2", "3", "4", "r", "u", "b", ".">>,
      <<"1", " ", "2", " ", "d", "/", "1">> }

RECURSIVE TextsUpTo(_)
TextsUpTo(n) ==
    IF n = 0 THEN {<<>>}
    ELSE LET shorter == TextsUpTo(n - 1)
         IN  shorter \cup { Append(t, c) : t \in shorter, c \in PriceChars }

PriceTexts == TextsUpTo(MaxPriceLen) \cup PriceExamples

PriceInit ==
    /\ MainIdle
    /\ retry = NoRetry
    /\ price \in { [pc |-> "text", text |-> t, out |-> <<>>, again |-> <<>>] :
                   t \in PriceTexts }

\* out = MetroParser.scrape_price(text)
ScrapeText ==
    /\ price.pc = "text"
    /\ price' = [price EXCEPT !.pc = "once", !.out = scrape_price(price.text)]
    /\ UNCHANGED <<mainVars, retry>>

\* again = MetroParser.scrape_price(out)
ScrapeAgain ==
    /\ price.pc = "once"
    /\ price' = [price EXCEPT !.pc = "twice", !.again = scrape_price(price.out)]
    /\ UNCHANGED <<mainVars, retry>>

PriceNext ==
    \/ ScrapeText
    \/ ScrapeAgain

PriceSpec == PriceInit /\ [][PriceNext]_vars

-----------------------------------------------------------------------------
(* Properties *)

\* positions inside a retry_wrapper call of get_product_data
FetchPcs == {"item_loop", "win_open", "body", "win_close", "item_raise"}

\* the entry's text holds the sold-out marker
IsSoldOut(e) == \E k \in 1..Len(e.text) : e.text[k] = "Raskupili"

\* s is strictly increasing
Increasing(s) == \A a, b \in 1..Len(s) : a < b => s[a] < s[b]

\* C1: a call of the retry-wrapped get_product_data whose function has
\* never done anything but raise ends by raising, after exactly ItemTries
\* invocations of the function.
C1_AlwaysFailingInvokedNTimes ==
    (itemCall.out \in {"returned", "raised"} /\ ~everOk)
        => (itemCall.out = "raised" /\ itemCall.inv = ItemTries)

\* C2: while get_product_data is being run for a link, the cache of the
\* running attempt has no value for that link, so a resolved link never
\* opens a window or loads its page again; no link is loaded to completion
\* twice; and every collected record is the cached value of its link, so
\* entries sharing a link yield identical records.
C2_ResolvedLinkNotRefetched ==
    driver # 0 =>
        /\ pc \in FetchPcs => <<driver, listing[i].href>> \notin DOMAIN cache
        /\ \A key \in DOMAIN fetches : fetches[key] = 1 /\ key \in DOMAIN cache
        /\ \A k \in 1..Len(products) :
              /\ <<driver, products[k].link>> \in DOMAIN fetches
              /\ cache[<<driver, products[k].link>>] = products[k]
        /\ \A a, b \in 1..Len(products) :
              products[a].link = products[b].link => products[a] = products[b]

\* two entries that share a link have both been served, from one load
C2_Witness ==
    /\ pc = "items"
    /\ Len(products) >= 2
    /\ products[1].link = products[2].link
    /\ src[1] # src[2]
    /\ fetches[<<driver, products[1].link>>] = 1

\* C3: every list parse_chocolate_category has returned holds a record for
\* every entry that is not sold out and whose detail page has all fields.
C3_CompleteEntriesReturned ==
    \A r \in 1..Len(results) :
        results[r].kind = "list" =>
            \A j \in 1..Len(listing) :
                (~IsSoldOut(listing[j]) /\ PageComplete(page[listing[j].href]))
                    => \E k \in 1..Len(results[r].src) : results[r].src[k] = j

C5_SoldOutSkipped ==
    /\ pc \in FetchPcs => ~IsSoldOut(listing[i])
    /\ \A k \in 1..Len(src) : ~IsSoldOut(listing[src[k]])
    /\ \A r \in 1..Len(results) :
          results[r].kind = "list" =>
              \A k \in 1..Len(results[r].src) :
                  ~IsSoldOut(listing[results[r].src[k]])

\* a run has returned records although the first entry was sold out
C5_Witness ==
    /\ Len(listing) >= 2
    /\ IsSoldOut(listing[1])
    /\ Len(results) >= 1
    /\ results[1].kind = "list"
    /\ results[1].products # <<>>

\* C6: the records being collected, and those of every returned list, are
\* in the order of the entries they were read for, and each carries the
\* link of its entry.
C6_ListingOrder ==
    /\ Increasing(src)
    /\ Len(src) = Len(products)
    /\ \A k \in 1..Len(products) : products[k].link = listing[src[k]].href
    /\ \A r \in 1..Len(results) :
          results[r].kind = "list" =>
              /\ Increasing(results[r].src)
              /\ Len(results[r].src) = Len(results[r].products)
              /\ \A k \in 1..Len(results[r].products) :
                    results[r].products[k].link
                        = listing[results[r].src[k]].href

\* a returned list of two records that share a link, the second one served
\* from the cache
C6_Witness ==
    /\ Len(results) >= 1
    /\ results[1].kind = "list"
    /\ Len(results[1].src) = 2
    /\ results[1].products[1].link = results[1].products[2].link

\* C7 as stated: when an item's fetch has used up its tries the run goes
\* on with the next entry in the same session.
C7_ItemFailureIsolated ==
    [][pc = "item_raise"
          => (pc' = "items" /\ i' = i + 1 /\ driver' = driver
              /\ triesRun' = triesRun)]_vars

\* C7 amended: when an item's fetch has used up its tries the exception
\* ends the running attempt of the category run: the session is released,
\* the records collected so far are dropped, no further entry is fetched
\* in that attempt and the failure costs the run wrapper one try.
C7_ItemFailureAbortsAttempt ==
    [][pc = "item_raise"
          => (/\ driver' = 0
              /\ open' = {}
              /\ products' = <<>>
              /\ triesRun' = triesRun - 1
              /\ pc' \in {"run_loop", "crashed"})]_vars

\* an item's fetch ran out of tries with entries left, and the attempt is over
C7_Witness ==
    /\ itemCall.out = "raised"
    /\ pc = "run_loop"
    /\ driver = 0
    /\ Len(listing) >= 2
    /\ products = <<>>

\* C8: a call of parse_chocolate_category that ends with a failure has
\* made RunTries attempts, and every call ends with a list or a failure.
C8_RunRetriedToBudget ==
    /\ runCall.out = "raised" => runCall.inv = RunTries
    /\ \A r \in 1..Len(results) : results[r].kind \in {"list", "exc"}

\* C9: at most one session is open, it is the session of the running
\* attempt, and none is open between attempts or after
\* parse_chocolate_category has returned or raised.
C9_SessionReleased ==
    /\ Cardinality(open) <= 1
    /\ driver # 0 => open = {driver}
    /\ pc \in {"main", "run_loop", "acquire", "crashed"} => open = {}
    /\ driver = 0 <=> pc \in {"main", "run_loop", "acquire", "crashed"}

\* a failed attempt and a later one both had a session, and the call is over
C9_Witness ==
    /\ nDrivers >= 2
    /\ pc \in {"main", "crashed"}
    /\ runCall.inv >= 2
    /\ open = {}

\* C10 as stated: when the browser fails to start the run is over at once
\* and no try is used.
C10_StartFailureFatal ==
    [][(pc = "acquire" /\ nDrivers' = nDrivers)
          => (pc' = "crashed" /\ triesRun' = triesRun)]_vars

\* C10 amended: a browser that fails to start is handled by the run
\* wrapper like any other failure: it costs one try, and the run is
\* attempted again unless that was the last try.
C10_StartFailureRetried ==
    [][(pc = "acquire" /\ nDrivers' = nDrivers)
          => (/\ triesRun' = triesRun - 1
              /\ pc' = IF triesRun > 1 THEN "run_loop" ELSE "crashed")]_vars

\* the first start failed, the wrapper is about to try again
C10_Witness ==
    /\ pc = "run_loop"
    /\ nDrivers = 0
    /\ runCall.inv = 1
    /\ triesRun = RunTries - 1

\* the key of the entry get_product_data is running for
ThisKey == <<driver, listing[i].href>>

\* C11: when the page has loaded and the name or a price element is not
\* there, get_product_data returns the empty result: the wrapper's tries
\* stay as they are, the call returns to the listing loop, the empty result
\* is cached for the link and nothing is added to the output.
C11_MissingNameOrPriceIsUnavailable ==
    [][(pc = "win_close" /\ missing \in {"name", "regular", "promo"})
          => (/\ pending = [kind |-> "empty"]
              /\ triesItem' = triesItem
              /\ pc' = "items"
              /\ i' = i + 1
              /\ itemCall'.out = "returned"
              /\ ThisKey \in DOMAIN cache'
              /\ cache'[ThisKey] = [kind |-> "empty"]
              /\ products' = products)]_vars

\* a page without its promo price element has been read
C11_Witness ==
    /\ pc = "win_close"
    /\ missing = "promo"
    /\ pending = [kind |-> "empty"]

\* C12 as stated: a missing id or brand element is a failure that costs the
\* wrapper a try, like a navigation error.
C12_OtherLookupFailureRetried ==
    [][(pc = "win_close" /\ missing \in {"id", "brand"})
          => (pending = [kind |-> "exc"] /\ triesItem' = triesItem - 1)]_vars

\* C12 amended: a missing id or brand element gives the empty result like
\* any other missing element and costs no try; an exception of the body
\* (driver.get, or any lookup failure that is not a missing element)
\* reaches the wrapper, costs one try and is followed by another attempt
\* while tries remain.
C12_OnlyExceptionsRetried ==
    /\ [][(pc = "win_close" /\ missing \in {"id", "brand"})
             => (/\ pending = [kind |-> "empty"]
                 /\ triesItem' = triesItem
                 /\ pc' = "items"
                 /\ cache'[ThisKey] = [kind |-> "empty"])]_vars
    /\ [][(pc = "win_close" /\ pending = [kind |-> "exc"])
             => (/\ missing = "none"
                 /\ triesItem' = triesItem - 1
                 /\ pc' = IF triesItem > 1 THEN "item_loop" ELSE "item_raise"
                 /\ cache' = cache)]_vars

\* a page without its brand element has been read
C12_Witness ==
    /\ pc = "win_close"
    /\ missing = "brand"
    /\ pending = [kind |-> "empty"]

\* the records the program holds: cached, being collected, returned
AllRecords ==
    { cache[k] : k \in { x \in DOMAIN cache : cache[x].kind = "record" } }
    \cup { products[k] : k \in 1..Len(products) }
    \cup UNION { { results[r].products[k] : k \in 1..Len(results[r].products) }
                 : r \in { x \in 1..Len(results) : results[x].kind = "list" } }

\* C13: no record has a promo price and an empty regular price, and the
\* record of a page whose regular price is empty and whose promo price is
\* "199" has regular_price = promo_price = "199".
C13_RegularFilledFromPromo ==
    /\ \A rec \in AllRecords :
          rec.promo_price # <<>> => rec.regular_price # <<>>
    /\ \A rec \in AllRecords :
          page[rec.link] = "emptyRegular"
              => (/\ rec.promo_price = <<"1", "9", "9">>
                  /\ rec.regular_price = <<"1", "9", "9">>)

\* the record of a promo-only page has been returned
C13_Witness ==
    /\ Len(results) >= 1
    /\ results[1].kind = "list"
    /\ Len(results[1].products) >= 1
    /\ page[results[1].products[1].link] = "emptyRegular"

\* C18: with a button that is found by exactly scroll.n lookups, the loop
\* has clicked once per lookup so far; every pass of the loop clicks or
\* ends the loop; and once the loop is over there have been exactly n
\* clicks and n + 1 lookups, and there are no more.
C18_ScrollStopsAfterN ==
    /\ [](/\ pc = "scroll"
             => (/\ scroll.lookups = scroll.clicks
                 /\ scroll.clicks + moreLeft = scroll.n)
          /\ pc \in {"items"} \cup FetchPcs
             => (/\ scroll.clicks = scroll.n
                 /\ scroll.lookups = scroll.n + 1))
    /\ [][pc = "scroll"
             => \/ (pc' = "scroll" /\ scroll'.clicks = scroll.clicks + 1)
                \/ (pc' = "items" /\ scroll.clicks = scroll.n)]_vars

\* the button was there once, and the loop is over
C18_Witness ==
    /\ pc = "items"
    /\ scroll.n >= 1
    /\ scroll.clicks = scroll.n

\* C19: every call of a wrapped function starts with the budget the
\* decorator was given, and no call returns without having invoked the
\* function.
C19_FullBudgetEveryCall ==
    /\ (pc = "item_loop" /\ itemCall.inv = 0) => triesItem = ItemTries
    /\ (pc = "run_loop" /\ runCall.inv = 0) => triesRun = RunTries
    /\ itemCall.out = "returned" => itemCall.inv >= 1
    /\ runCall.out = "returned" => runCall.inv >= 1

\* the order of the controls in select_address_in_city
SelectOrder == <<"ADDRESS_BTN", "PICKUP_BTN", "RESET_BTN", "CITY_INPUT",
                 "CITY_ITEM", "SELECT_BTN">>

\* C20: the controls used are always a prefix of the fixed order, all six
\* once select_address_in_city is over; a control is only ever added as the
\* next one of the order; and a lookup that fails ends the attempt at once:
\* no control is added, the session is released and the failure costs the
\* run wrapper one try.
C20_SelectInOrder ==
    /\ [](/\ Len(touched) <= Len(SelectOrder)
          /\ touched = SubSeq(SelectOrder, 1, Len(touched))
          /\ pc = "select" => Len(touched) < Len(SelectOrder)
          /\ pc \in {"scroll", "items"} \cup FetchPcs => touched = SelectOrder)
    /\ [][touched' # touched
             => \/ (pc = "select" /\ Len(touched') = Len(touched) + 1)
                \/ (pc = "acquire" /\ touched' = <<>>)]_vars
    /\ [][(pc = "select" /\ touched' = touched)
             => (/\ pc' \in {"run_loop", "crashed"}
                 /\ driver' = 0
                 /\ triesRun' = triesRun - 1)]_vars

\* the city input was not found: three controls used, the attempt is over
C20_Witness ==
    /\ pc = "run_loop"
    /\ driver = 0
    /\ touched = <<"ADDRESS_BTN", "PICKUP_BTN", "RESET_BTN">>

\* C14 as stated: with tries <= 0 a call only ends by returning the result
\* of an invocation of the function, or with a failure that is not
\* retryable.
C14_NonPositiveIsUnlimited ==
    (retry.pc # "off" /\ retry.tries0 <= 0)
        => (/\ retry.out = "returned"
               => (retry.inv >= 1 /\ retry.val = "result")
            /\ retry.out = "raised" => retry.val = "other")

\* C14 amended: with tries < 0 the counter never reaches 0, so the function
\* is invoked in every pass of the loop and a call only ends with the
\* result of an invocation (or a failure that is not retryable); with
\* tries = 0 the function is never invoked and every call returns None.
C14_NegativeIsUnlimited ==
    /\ (retry.pc # "off" /\ retry.tries0 < 0)
          => (/\ retry.tries < 0
              /\ retry.tries = retry.tries0 - retry.fails
              /\ retry.out = "returned"
                    => (retry.inv >= 1 /\ retry.val = "result")
              /\ retry.out = "raised" => retry.val = "other")
    /\ (retry.pc # "off" /\ retry.tries0 = 0)
          => (/\ retry.inv = 0
              /\ retry.last = "none"
              /\ retry.pc # "func"
              /\ retry.out \in {"none", "running", "returned"}
              /\ retry.out = "returned" => retry.val = "None")

\* a call with a negative budget has returned the result of its third
\* invocation
C14_Witness ==
    /\ retry.pc = "idle"
    /\ retry.tries0 < 0
    /\ retry.out = "returned"
    /\ retry.val = "result"
    /\ retry.inv = 3

\* C15: when the function raises an exception that is not retryable the
\* call ends with that exception at once: no further invocation, no log
\* line, the tries as they were.
C15_OtherFailurePropagates ==
    [][(retry.pc = "func" /\ retry'.last = "other")
          => (/\ retry'.pc = "idle"
              /\ retry'.out = "raised"
              /\ retry'.val = "other"
              /\ retry'.inv = retry.inv
              /\ retry'.tries = retry.tries
              /\ retry'.log = retry.log)]_vars

\* after one retried failure the second invocation raised another exception
C15_Witness ==
    /\ retry.pc = "idle"
    /\ retry.out = "raised"
    /\ retry.val = "other"
    /\ retry.inv = 2
    /\ retry.tries = retry.tries0 - 1

\* the characters of a canonical price
PriceDigits == {"0", "1", "2", "3", "4", "5", "6", "7", "8", "9", "."}

\* C16 as stated: the result of scrape_price holds digits and the decimal
\* separator only, no whitespace is left of the input, "1 234rub." gives
\* "1234" and the empty text gives the empty text.
C16_ResultIsDigitsOnly ==
    price.pc \in {"once", "twice"}
        => (/\ \A k \in 1..Len(price.out) : price.out[k] \in PriceDigits
            /\ price.text = <<"1", " ", "2", "3", "4", "r", "u", "b", ".">>
                  => price.out = <<"1", "2", "3", "4">>
            /\ price.text = <<>> => price.out = <<>>)

\* C16 amended: the result of scrape_price is the input without its space
\* characters (other whitespace stays), cut before the first cyrillic de if
\* there is one; "1 234rub." gives "1234rub." and the empty text gives the
\* empty text.
C16_SpacesRemovedCutAtMarker ==
    price.pc \in {"once", "twice"}
        => LET kept == SelectSeq(price.text, LAMBDA c : c # " ")
               cut == IF \E k \in 1..Len(kept) : kept[k] = "d"
                      THEN (CHOOSE j \in 1..Len(kept) :
                               /\ kept[j] = "d"
                               /\ \A h \in 1..(j - 1) : kept[h] # "d") - 1
                      ELSE Len(kept)
           IN  /\ price.out = SubSeq(kept, 1, cut)
               /\ price.text = <<"1", " ", "2", "3", "4", "r", "u", "b", ".">>
                     => price.out = <<"1", "2", "3", "4", "r", "u", "b", ".">>
               /\ price.text = <<>> => price.out = <<>>

\* scrape_price has been applied to "1 234rub."
C16_Witness ==
    /\ price.pc = "once"
    /\ price.text = <<"1", " ", "2", "3", "4", "r", "u", "b", ".">>
    /\ price.out = <<"1", "2", "3", "4", "r", "u", "b", ".">>

\* C17: scrape_price applied to its own result gives that result again.
C17_Idempotent ==
    price.pc = "twice" => price.again = price.out

\* scrape_price has been applied twice to a text that it changes
C17_Witness ==
    /\ price.pc = "twice"
    /\ price.text = <<"1", " ", "2", " ", "d", "/", "1">>
    /\ price.out = <<"1", "2">>
    /\ price.again = <<"1", "2">>

====
